---- MODULE Spec2Model ----
(***************************************************************************)
(* The Mixed processor of fusequery (processor_mixed.rs): one MixedWorker  *)
(* shared by the MixedProcessor handles issued by create() and share().    *)
(* The first execute() starts the worker: one branch task per registered   *)
(* upstream pumps that upstream into a bounded fan-in channel, and one     *)
(* distributor task routes the merged stream round-robin into n bounded    *)
(* output channels, whose receiving ends the handles take.                 *)
(*                                                                         *)
(* Every handle operation runs under the worker's RwLock (share: read      *)
(* guard around an atomic fetch_add; connect_to and execute: write guard   *)
(* around their whole body), so each is one atomic action.  The spawned    *)
(* tasks suspend at every .await: each resumption is one action.           *)
(***************************************************************************)
EXTENDS Integers, Sequences, FiniteSets, TLC

VARIABLES
    n,           \* MixedWorker.n, the fan-out width
    shared_num,  \* MixedWorker.shared_num (AtomicUsize)
    started,     \* MixedWorker.started
    inputs,      \* MixedWorker.inputs: the registered upstreams, in order
    receivers,   \* MixedWorker.receivers: TRUE = Some(receiver), FALSE = None
    handles,     \* the MixedProcessor handles issued (and not dropped): handles[h] is the index field of handle h
    outs,        \* every output channel allocated by start(), in allocation order (receivers[k] is the receiving end of outs[k])
    fanins,      \* every fan-in channel allocated by prepare_inputstream()
    branches,    \* the branch tasks spawned by prepare_inputstream()
    dists,       \* the distributor tasks spawned by start()
    script,      \* what each upstream processor does when executed
    execCount,   \* how many times each upstream's execute() has been invoked
    chanCalls,   \* how many times mpsc::channel has been called
    results,     \* results[h]: the outcome of every execute() call made on handle h, in order
    shareRes     \* the outcome of the latest share() call

vars == <<n, shared_num, started, inputs, receivers, handles, outs, fanins,
          branches, dists, script, execCount, chanCalls, results, shareRes>>

(***************************************************************************)
(* Bounds of the model.                                                    *)
(***************************************************************************)
UsizeBits == 2     \* usize is modelled UsizeBits wide: AtomicUsize::fetch_add wraps at 2^UsizeBits
MaxN == 3          \* create() is called with n in 0..MaxN
MaxUp == 2         \* upstream processors available for connect_to
MaxItems == 3      \* items an upstream stream yields at most, where upstreams may fail
MaxTotal == 5      \* items the wired upstreams yield in all at most
MaxHandles == 3    \* handles issued at most (creator included)
MaxExec == 2       \* execute() calls made on one handle at most
MaxStarts == 2     \* start() attempts that allocate a fan-in channel at most
MaxBurst == 1      \* items an upstream yields where a specification is about handles, not data

UsizeMod == 2 ^ UsizeBits
Upstreams == 1..MaxUp

Min(a, b) == IF a < b THEN a ELSE b

(***************************************************************************)
(* Items of a stream: Result<DataBlock>.  An item is identified by the     *)
(* upstream that produced it and its position in that upstream's stream;   *)
(* seq = 0 is the error of a failed upstream execute().                    *)
(***************************************************************************)
Item(u, k, e) == [src |-> u, seq |-> k, err |-> e]
NoItem == Item(0, 0, FALSE)

Range(s) == {s[i] : i \in DOMAIN s}

\* An upstream processor: whether its execute() succeeds and the items its
\* stream yields ("ok" = Ok(block), "err" = Err(e)).
Proc(ok, its) == [execOk |-> ok, items |-> its]
OkItems(len) == [i \in 1..len |-> "ok"]
ErrAt(len, e) == [i \in 1..len |-> IF i = e THEN "err" ELSE "ok"]

(***************************************************************************)
(* tokio::sync::mpsc bounded channels.  sent is everything ever pushed,    *)
(* rcvd how many of them the receiver has taken: the buffer holds          *)
(* sent[rcvd+1 ..].  rx: the Receiver is alive; tx: a Sender is alive      *)
(* (output channels; a fan-in channel's senders are its branch tasks).     *)
(***************************************************************************)
\* mpsc::channel(cap) panics when cap = 0
ChannelPanics(cap) == cap = 0

\* owner: the handle whose execute() took the receiving end (0: still in receivers);
\* eos: that consumer has seen the end of the stream
NewChan(cap) == [cap |-> cap, sent |-> <<>>, rcvd |-> 0, rx |-> TRUE, tx |-> TRUE, owner |-> 0, eos |-> FALSE]

Buffered(ch) == Len(ch.sent) - ch.rcvd
Full(ch) == Buffered(ch) >= ch.cap
Front(ch) == ch.sent[ch.rcvd + 1]

\* AtomicUsize::fetch_add(1): the new value (the old one is returned)
FetchAdd(x) == (x + 1) % UsizeMod

(***************************************************************************)
(* MixedProcessor::create(ctx, n): the state after construction.           *)
(***************************************************************************)
create(nn) ==
    [n |-> nn, inputs |-> <<>>, started |-> FALSE, receivers |-> <<>>,
     shared_num |-> FetchAdd(0),   \* fetch_add on the fresh counter
     index |-> 0]                  \* ... which returned 0

\* a processor that has not been wired: nothing calls it
Unwired == [execOk |-> TRUE, items |-> <<>>]

InitWith(ns) ==
    /\ \E nn \in ns :
          LET c == create(nn) IN
          /\ n = c.n
          /\ inputs = c.inputs
          /\ started = c.started
          /\ receivers = c.receivers
          /\ shared_num = c.shared_num
          /\ handles = <<c.index>>
    /\ script = [u \in Upstreams |-> Unwired]
    /\ outs = <<>>
    /\ fanins = <<>>
    /\ branches = <<>>
    /\ dists = <<>>
    /\ execCount = [u \in Upstreams |-> 0]
    /\ chanCalls = 0
    /\ results = <<<<>>>>
    /\ shareRes = "none"

(***************************************************************************)
(* MixedProcessor::share                                                   *)
(***************************************************************************)
\* line 140: the overflow test on the value fetch_add returned
ShareOverflow(index) == index >= n

share(h) ==
    /\ h \in DOMAIN handles
    /\ LET index == shared_num IN
       /\ shared_num' = FetchAdd(shared_num)
       /\ IF ShareOverflow(index)
          THEN /\ shareRes' = "ErrOverflow"
               /\ UNCHANGED <<handles, results>>
          ELSE /\ Len(handles) < MaxHandles
               /\ shareRes' = "Ok"
               /\ handles' = Append(handles, index)
               /\ results' = Append(results, <<>>)
    /\ UNCHANGED <<n, started, inputs, receivers, outs, fanins, branches, dists,
                   script, execCount, chanCalls>>

(***************************************************************************)
(* MixedProcessor::connect_to(input): input is a processor that behaves    *)
(* as p; the k-th processor wired is upstream k.                           *)
(***************************************************************************)
connect_to(h, p) ==
    /\ h \in DOMAIN handles
    /\ Len(inputs) < MaxUp
    /\ LET u == Len(inputs) + 1 IN
       /\ inputs' = Append(inputs, u)
       /\ script' = [script EXCEPT ![u] = p]
    /\ UNCHANGED <<n, shared_num, started, receivers, handles, outs, fanins,
                   branches, dists, execCount, chanCalls, results, shareRes>>

(***************************************************************************)
(* MixedWorker::prepare_inputstream and MixedWorker::start, as functions   *)
(* of the worker's state w (a record of the variables they touch, plus     *)
(* res, the value returned).  rej is the environment's part: 0 when the    *)
(* execution context schedules every task, k when the k-th execute_task    *)
(* call of this start is rejected.                                         *)
(***************************************************************************)
Worker ==
    [started |-> started, receivers |-> receivers, outs |-> outs, fanins |-> fanins,
     branches |-> branches, dists |-> dists, chanCalls |-> chanCalls, res |-> "Ok"]

\* the branch task spawned for inputs[i], feeding fan-in channel f
NewBranch(i, f) == [up |-> inputs[i], fanin |-> f, pc |-> "exec", pos |-> 0, pending |-> NoItem]

\* the distributor task: its merged stream, where its senders start in outs, how many it has
NewDist(f, base, outputs) ==
    [fanin |-> f, base |-> base, outputs |-> outputs, index |-> 0, pc |-> "recv",
     pending |-> NoItem, target |-> 0]

\* channels with one slot more than there are inputs
CapacityPlusOne(M) == M + 1

\* lines 42, 92: mpsc::channel(inputs), for the fan-in and for every output channel
Capacity(M) == M

prepare_inputstream(w, rej) ==
    LET M == Len(inputs) IN
    IF M = 0
    THEN [w EXCEPT !.res = "ErrZeroInputs"]
    ELSE LET f == Len(w.fanins) + 1
             rejected == rej \in 1..M
             spawned == IF rejected THEN rej - 1 ELSE M
         IN  \* on a rejected spawn `?` returns and drops sender and receiver
             [w EXCEPT !.fanins = Append(w.fanins, [NewChan(Capacity(M)) EXCEPT !.rx = ~rejected]),
                       !.branches = w.branches \o [i \in 1..spawned |-> NewBranch(i, f)],
                       !.chanCalls = w.chanCalls + 1,
                       !.res = IF rejected THEN "ErrSpawn" ELSE "Ok"]

\* start() without the early return of line 84
StartedCheckSkipped == FALSE

\* line 83: the started flag read at the top of start()
StartedCheck == started

\* the senders allocated by this start() are dropped
DropSenders(os, base) == [k \in DOMAIN os |-> IF k > base THEN [os[k] EXCEPT !.tx = FALSE] ELSE os[k]]

start(rej) ==
    LET w == Worker
        M == Len(inputs)
        base == Len(outs)
    IN
    IF StartedCheck THEN w
    ELSE IF n > 0 /\ ChannelPanics(M)
    THEN [w EXCEPT !.res = "PanicChannel", !.chanCalls = w.chanCalls + 1]
    ELSE LET w1 == [w EXCEPT !.outs = w.outs \o [i \in 1..n |-> NewChan(Capacity(M))],
                             !.receivers = w.receivers \o [i \in 1..n |-> TRUE],
                             !.chanCalls = w.chanCalls + n]
             w2 == prepare_inputstream(w1, rej)
             f == Len(w2.fanins)
         IN  IF w2.res # "Ok"
             THEN [w2 EXCEPT !.outs = DropSenders(w2.outs, base)]
             ELSE IF rej = M + 1
             THEN \* the distributor's future is dropped with the stream and the senders it owns
                  [w2 EXCEPT !.outs = DropSenders(w2.outs, base),
                             !.fanins[f].rx = FALSE,
                             !.res = "ErrSpawn"]
             ELSE [w2 EXCEPT !.dists = Append(w2.dists, NewDist(f, base, n)),
                             !.started = TRUE]

(***************************************************************************)
(* MixedProcessor::execute on handle h: start() and the take() of          *)
(* receivers[index] under the write guard, then the unwrap().              *)
(***************************************************************************)
\* line 176: Option::take leaves None in the slot
Take(rs, i) == [rs EXCEPT ![i + 1] = FALSE]

execute_with(h, rej) ==
    /\ h \in DOMAIN handles
    /\ Len(results[h]) < MaxExec
    /\ StartedCheck \/ Len(inputs) = 0 \/ Len(fanins) < MaxStarts
    /\ LET w == start(rej)
           index == handles[h]
           slot == index + 1
           res == IF w.res # "Ok" THEN w.res
                  ELSE IF slot > Len(w.receivers) THEN "PanicIndex"
                  ELSE IF ~w.receivers[slot] THEN "PanicUnwrap"
                  ELSE "Ok"
       IN /\ started' = w.started
          /\ fanins' = w.fanins
          /\ branches' = w.branches
          /\ dists' = w.dists
          /\ chanCalls' = w.chanCalls
          /\ receivers' = IF res \in {"Ok", "PanicUnwrap"} THEN Take(w.receivers, index) ELSE w.receivers
          /\ outs' = IF res = "Ok" THEN [w.outs EXCEPT ![slot].owner = h] ELSE w.outs
          /\ results' = [results EXCEPT ![h] = Append(@, res)]
    /\ UNCHANGED <<n, shared_num, inputs, handles, script, execCount, shareRes>>

\* the execution context schedules every task
execute(h) == execute_with(h, 0)

\* the execution context rejects the k-th task of this start
execute_rejected(h, k) ==
    /\ ~StartedCheck
    /\ k \in 1..(Len(inputs) + 1)
    /\ Len(inputs) > 0
    /\ execute_with(h, k)

(***************************************************************************)
(* The branch task of prepare_inputstream (the async block of lines        *)
(* 46-75), one action per resumption.                                      *)
(*   exec : input.execute().await                                          *)
(*   pull : stream.next().await                                            *)
(*   send : sender.send(Ok(item)).await, then pull again                   *)
(*   last : sender.send(Err(e)).await, then return                         *)
(*   done : returned (its sender is dropped)                               *)
(***************************************************************************)
\* a task that returns on a failed execute() without forwarding the error
ExecFailureSwallowed == "done"

\* lines 48-53: the error of a failed execute() is sent, then the task returns
AfterExecFailure == "last"

\* line 47: the upstream's execute() and the match on its result
BranchExec(b) ==
    /\ b \in DOMAIN branches
    /\ branches[b].pc = "exec"
    /\ LET u == branches[b].up IN
       /\ execCount' = [execCount EXCEPT ![u] = @ + 1]
       /\ branches' = IF script[u].execOk
                      THEN [branches EXCEPT ![b].pc = "pull"]
                      ELSE [branches EXCEPT ![b].pc = AfterExecFailure, ![b].pending = Item(u, 0, TRUE)]
    /\ UNCHANGED <<n, shared_num, started, inputs, receivers, handles, outs, fanins,
                   dists, script, chanCalls, results, shareRes>>

\* a task that treats an Err item like an Ok item and keeps pulling
AfterPullKeepsPulling(isErr) == "send"

\* what the task does with the item stream.next() yielded (lines 58-72)
AfterPull(isErr) == IF isErr THEN "last" ELSE "send"

\* line 57: stream.next().await
BranchPull(b) ==
    /\ b \in DOMAIN branches
    /\ branches[b].pc = "pull"
    /\ LET u == branches[b].up
           k == branches[b].pos + 1
       IN branches' =
            IF k > Len(script[u].items)
            THEN [branches EXCEPT ![b].pc = "done"]
            ELSE [branches EXCEPT ![b].pos = k,
                                  ![b].pending = Item(u, k, script[u].items[k] = "err"),
                                  ![b].pc = AfterPull(script[u].items[k] = "err")]
    /\ UNCHANGED <<n, shared_num, started, inputs, receivers, handles, outs, fanins,
                   dists, script, execCount, chanCalls, results, shareRes>>

\* a task that returns after its first send
AfterSendReturns(pc) == "done"

\* where the task goes after a send that succeeded
AfterSend(pc) == IF pc = "send" THEN "pull" ELSE "done"

\* an item that overtakes the items forwarded before it
ForwardAhead(sent, item) == <<item>> \o sent

\* lines 60, 68: the item pulled is sent before the next one is pulled, so it
\* enters the channel behind everything the task sent before
Forward(sent, item) == Append(sent, item)

\* lines 49, 60, 68: sender.send(..).await; it suspends while the channel is full
BranchSend(b) ==
    /\ b \in DOMAIN branches
    /\ branches[b].pc \in {"send", "last"}
    /\ LET f == branches[b].fanin
           ch == fanins[f]
       IN IF ~ch.rx
          THEN \* the receiver is gone: logged, the task returns
               /\ branches' = [branches EXCEPT ![b].pc = "done", ![b].pending = NoItem]
               /\ UNCHANGED fanins
          ELSE /\ ~Full(ch)
               /\ fanins' = [fanins EXCEPT ![f].sent = Forward(@, branches[b].pending)]
               /\ branches' = [branches EXCEPT ![b].pc = AfterSend(branches[b].pc),
                                               ![b].pending = NoItem]
    /\ UNCHANGED <<n, shared_num, started, inputs, receivers, handles, outs,
                   dists, script, execCount, chanCalls, results, shareRes>>

\* senders that are never dropped
SendersNeverDropped(f) == {b \in DOMAIN branches : branches[b].fanin = f}

\* a fan-in channel's senders are the branch tasks that have not returned
LiveSenders(f) == {b \in DOMAIN branches : branches[b].fanin = f /\ branches[b].pc # "done"}

(***************************************************************************)
(* The distributor task of start (the async block of lines 98-107).        *)
(*   recv : stream.next().await                                            *)
(*   send : senders[i].send(item).await                                    *)
(*   done : the merged stream ended; panicked : index % 0                  *)
(***************************************************************************)
\* a distributor whose senders outlive it
SendersLeak(os, base, outputs) == os

\* line 107: the task ends and drops the senders it owns
EndOfDist(os, base, outputs) ==
    [k \in DOMAIN os |->
       IF k > base /\ k <= base + outputs THEN [os[k] EXCEPT !.tx = FALSE] ELSE os[k]]

\* the output taken from the counter's value after the increment
RouteAfterIncrement(index, outputs) == (index + 1) % outputs

\* line 101: the output the item goes to, from the counter's value before the increment
Route(index, outputs) == index % outputs

DistRecv(d) ==
    /\ d \in DOMAIN dists
    /\ dists[d].pc = "recv"
    /\ LET f == dists[d].fanin
           ch == fanins[f]
           base == dists[d].base
           outputs == dists[d].outputs
       IN IF Buffered(ch) > 0
          THEN IF outputs = 0
               THEN \* remainder by zero: the task panics and drops the stream
                    /\ dists' = [dists EXCEPT ![d].pc = "panicked"]
                    /\ fanins' = [fanins EXCEPT ![f].rcvd = @ + 1, ![f].rx = FALSE]
                    /\ UNCHANGED outs
               ELSE /\ dists' = [dists EXCEPT ![d].pc = "send",
                                              ![d].pending = Front(ch),
                                              ![d].target = Route(dists[d].index, outputs),
                                              ![d].index = FetchAdd(@)]
                    /\ fanins' = [fanins EXCEPT ![f].rcvd = @ + 1]
                    /\ UNCHANGED outs
          ELSE \* empty: the stream ends once every sender is gone
               /\ LiveSenders(f) = {}
               /\ dists' = [dists EXCEPT ![d].pc = "done"]
               /\ fanins' = [fanins EXCEPT ![f].rx = FALSE]
               /\ outs' = EndOfDist(outs, base, outputs)
    /\ UNCHANGED <<n, shared_num, started, inputs, receivers, handles,
                   branches, script, execCount, chanCalls, results, shareRes>>

\* a distributor that gives up at the first send that fails
SendFailureAborts == "done"

\* lines 103-105: a send that fails is logged and the loop goes on
AfterSendFailure == "recv"

\* line 103: senders[i].send(item).await
DistSend(d) ==
    /\ d \in DOMAIN dists
    /\ dists[d].pc = "send"
    /\ LET k == dists[d].base + dists[d].target + 1
           ch == outs[k]
       IN IF ~ch.rx
          THEN /\ UNCHANGED outs
               /\ dists' = [dists EXCEPT ![d].pc = AfterSendFailure, ![d].pending = NoItem]
          ELSE /\ ~Full(ch)
               /\ outs' = [outs EXCEPT ![k].sent = Append(@, dists[d].pending)]
               /\ dists' = [dists EXCEPT ![d].pc = "recv", ![d].pending = NoItem]
    /\ UNCHANGED <<n, shared_num, started, inputs, receivers, handles, fanins,
                   branches, script, execCount, chanCalls, results, shareRes>>

(***************************************************************************)
(* The consumer of the stream execute() returned (ReceiverStream over      *)
(* output channel k): one poll of the stream.                              *)
(***************************************************************************)
Consume(k) ==
    /\ k \in DOMAIN outs
    /\ outs[k].owner # 0
    /\ outs[k].rx
    /\ ~outs[k].eos
    /\ IF Buffered(outs[k]) > 0
       THEN outs' = [outs EXCEPT ![k].rcvd = @ + 1]
       ELSE /\ ~outs[k].tx
            /\ outs' = [outs EXCEPT ![k].eos = TRUE]
    /\ UNCHANGED <<n, shared_num, started, inputs, receivers, handles, fanins,
                   branches, dists, script, execCount, chanCalls, results, shareRes>>

\* the consumer drops the stream execute() returned: the receiving end of
\* output channel k is dropped with it
DropStream(k) ==
    /\ k \in DOMAIN outs
    /\ outs[k].owner # 0
    /\ outs[k].rx
    /\ outs' = [outs EXCEPT ![k].rx = FALSE]
    /\ UNCHANGED <<n, shared_num, started, inputs, receivers, handles, fanins,
                   branches, dists, script, execCount, chanCalls, results, shareRes>>

\* the last handle is dropped (no task holds the Arc): the MixedWorker is
\* dropped, and with it every receiving end still in receivers
DropHandles ==
    /\ handles # <<>>
    /\ handles' = <<>>
    /\ receivers' = <<>>
    /\ outs' = [k \in DOMAIN outs |->
                  IF k <= Len(receivers) /\ receivers[k] THEN [outs[k] EXCEPT !.rx = FALSE] ELSE outs[k]]
    /\ UNCHANGED <<n, shared_num, started, inputs, fanins,
                   branches, dists, script, execCount, chanCalls, results, shareRes>>

(***************************************************************************)
(* The environment: the processors it wires and the calls it makes.        *)
(***************************************************************************)
OkProcs(m) == {Proc(TRUE, OkItems(l)) : l \in 0..m}
ErrProcs(m) == {Proc(TRUE, ErrAt(l, e)) : l \in 1..m, e \in 1..m}
FailProc == Proc(FALSE, <<>>)
Procs(m) == OkProcs(m) \cup ErrProcs(m) \cup {FailProc}

RECURSIVE SumItems(_)
SumItems(us) == IF us = <<>> THEN 0 ELSE Len(script[us[1]].items) + SumItems(Tail(us))

\* the items the wired upstreams yield in all
TotalItems == SumItems(inputs)

\* no execute() call has been made yet
Setup == \A h \in DOMAIN results : results[h] = <<>>

\* a share() call that is within the fan-out width
Issue(h) == ~ShareOverflow(shared_num) /\ share(h)

\* wiring, of processors that yield at most MaxTotal items in all
Wire(h, p) == TotalItems + Len(p.items) <= MaxTotal /\ connect_to(h, p)

\* the first execute() call on a handle
Run(h) == h \in DOMAIN handles /\ results[h] = <<>> /\ execute(h)

Tasks ==
    \/ \E b \in 1..(MaxUp * MaxStarts) : BranchExec(b)
    \/ \E b \in 1..(MaxUp * MaxStarts) : BranchPull(b)
    \/ \E b \in 1..(MaxUp * MaxStarts) : BranchSend(b)
    \/ \E d \in 1..MaxStarts : DistRecv(d)
    \/ \E d \in 1..MaxStarts : DistSend(d)
    \/ \E k \in 1..(MaxN * MaxStarts) : Consume(k)

Widths == 0..Min(MaxN, UsizeMod - 1)

(***************************************************************************)
(* Spec: the start protocol.  Handles are issued within the fan-out width, *)
(* upstreams are wired at any time, every handle calls execute() up to     *)
(* MaxExec times, at any time.                                             *)
(***************************************************************************)
Init == InitWith(Widths)

Next ==
    \/ \E h \in 1..MaxHandles : Issue(h)
    \/ \E h \in 1..MaxHandles, p \in OkProcs(MaxBurst) : Wire(h, p)
    \/ \E h \in 1..MaxHandles : execute(h)
    \/ Tasks

Spec == Init /\ [][Next]_vars

(***************************************************************************)
(* SpecShare: the handle counter.  share() is called at any time and any   *)
(* number of times, beside the other operations.                           *)
(***************************************************************************)
NextShare ==
    \/ \E h \in 1..MaxHandles : share(h)
    \/ \E h \in 1..MaxHandles : Wire(h, Proc(TRUE, OkItems(MaxBurst)))
    \/ \E h \in 1..MaxHandles : execute(h)
    \/ Tasks

SpecShare == Init /\ [][NextShare]_vars

(***************************************************************************)
(* SpecFlow: the data path.  The pipeline is built (handles issued,        *)
(* upstreams wired) before the first execute(); each handle executes once, *)
(* at any time, or never, and consumes at its own pace.                    *)
(***************************************************************************)
InitFlow == InitWith(Widths \ {0})

NextFlow ==
    \/ \E h \in 1..MaxHandles : Setup /\ Issue(h)
    \/ \E p \in Procs(MaxItems) : Setup /\ Wire(1, p)
    \/ \E h \in 1..MaxHandles : Run(h)
    \/ Tasks

SpecFlow == InitFlow /\ [][NextFlow]_vars

(***************************************************************************)
(* SpecReject: Spec with an execution context that may reject a task of    *)
(* the first start(): ctx.execute_task returns Err for its k-th task.      *)
(***************************************************************************)
\* the first execute() call made on the worker meets a rejection
RejectFirst(h, k) == Setup /\ execute_rejected(h, k)

NextReject ==
    \/ \E h \in 1..MaxHandles : Issue(h)
    \/ \E h \in 1..MaxHandles, p \in OkProcs(MaxBurst) : Wire(h, p)
    \/ \E h \in 1..MaxHandles : execute(h)
    \/ \E h \in 1..MaxHandles, k \in 1..(MaxUp + 1) : RejectFirst(h, k)
    \/ Tasks

SpecReject == Init /\ [][NextReject]_vars

(***************************************************************************)
(* SpecDrop: SpecFlow's pipeline, whose consumers may drop their streams   *)
(* and whose handles may all be dropped, at any time.                      *)
(***************************************************************************)
NextDrop ==
    \/ \E h \in 1..MaxHandles : Setup /\ Issue(h)
    \/ \E p \in OkProcs(MaxItems) : Setup /\ Wire(1, p)
    \/ \E h \in 1..MaxHandles : Run(h)
    \/ \E k \in 1..MaxN : DropStream(k)
    \/ DropHandles
    \/ Tasks

SpecDrop == InitFlow /\ [][NextDrop]_vars

(***************************************************************************)
(* SpecPress: SpecFlow's pipeline fed by upstreams that yield no error and *)
(* up to MaxTotal items, enough to fill every channel.                     *)
(***************************************************************************)
NextPress ==
    \/ \E h \in 1..MaxHandles : Setup /\ Issue(h)
    \/ \E p \in OkProcs(MaxTotal) : Setup /\ Wire(1, p)
    \/ \E h \in 1..MaxHandles : Run(h)
    \/ Tasks

SpecPress == InitFlow /\ [][NextPress]_vars

(***************************************************************************)
(* SpecLive: SpecFlow's pipeline under fair scheduling.  The runtime       *)
(* resumes every task that can run, and a consumer that holds a stream     *)
(* keeps polling it; nothing obliges a handle to call execute().           *)
(***************************************************************************)
BranchStep(b) == BranchExec(b) \/ BranchPull(b) \/ BranchSend(b)
DistStep(d) == DistRecv(d) \/ DistSend(d)

NextLive ==
    \/ \E h \in 1..MaxHandles : Setup /\ Issue(h)
    \/ \E p \in OkProcs(MaxItems) \cup {FailProc} : Setup /\ Wire(1, p)
    \/ \E h \in 1..MaxHandles : Run(h)
    \/ Tasks

Fairness ==
    /\ \A b \in 1..MaxUp : WF_vars(BranchStep(b))
    /\ WF_vars(DistStep(1))
    /\ \A k \in 1..MaxN : WF_vars(Consume(k))

SpecLive == InitFlow /\ [][NextLive]_vars /\ Fairness

(***************************************************************************)
(* Properties.                                                             *)
(***************************************************************************)
\* the branch tasks spawned for upstream u
BranchesOf(u) == {b \in DOMAIN branches : branches[b].up = u}

\* the handles whose execute() has returned a stream
Executed == {h \in DOMAIN handles : results[h] # <<>> /\ results[h][1] = "Ok"}

\* C1 (single start): however the execute() calls of the handles interleave
\* with each other and with the tasks, once the worker is started exactly one
\* task graph exists: one fan-in channel, one branch task per upstream
\* registered at the start and one invocation of that upstream's execute()
\* (made by the branch task's first step), one distributor task, and n output
\* channels; before the start there is none of them.
C1_SingleStart ==
    /\ Len(dists) = (IF started THEN 1 ELSE 0)
    /\ Len(fanins) = (IF started THEN 1 ELSE 0)
    /\ Len(outs) = (IF started THEN n ELSE 0)
    /\ Len(receivers) = Len(outs)
    /\ \A u \in Upstreams : execCount[u] <= 1
    /\ started =>
          \A i \in 1..fanins[1].cap :
             /\ Cardinality(BranchesOf(inputs[i])) = 1
             /\ \A b \in BranchesOf(inputs[i]) :
                   execCount[inputs[i]] = (IF branches[b].pc = "exec" THEN 0 ELSE 1)
    /\ ~started => branches = <<>>

\* two handles have executed, both got a stream, and both upstreams have been executed once
C1_Witness ==
    /\ Cardinality(Executed) >= 2
    /\ Len(inputs) = 2
    /\ \A u \in Upstreams : execCount[u] = 1

\* C2 (indices): every handle issued holds an index in [0, n), and no two
\* handles issued hold the same index (handles is the history of every handle
\* issued, so this is also: an index once issued is never handed out again).
C2_UniqueIndexInRange ==
    /\ \A h \in DOMAIN handles : 0 <= handles[h] /\ handles[h] < n
    /\ \A h1, h2 \in DOMAIN handles : h1 # h2 => handles[h1] # handles[h2]

\* C3 (share overflow): once the creator and n-1 shares have been issued
\* (n >= 1), every share() call (the steps that change shared_num) fails with
\* the overflow error and issues no handle, however many calls are made.
C3_OverflowForever ==
    [][(n >= 1 /\ Len(handles) >= n /\ shared_num' # shared_num)
          => (shareRes' = "ErrOverflow" /\ handles' = handles)]_vars

\* the values execute() returns as Err(..), as opposed to a panic of the calling task
ReturnedErr == {"ErrZeroInputs", "ErrSpawn"}

\* no item is in two output channels or twice in one
NoItemTwice ==
    /\ \A k \in DOMAIN outs : \A i, j \in DOMAIN outs[k].sent :
          i # j => outs[k].sent[i] # outs[k].sent[j]
    /\ \A k1, k2 \in DOMAIN outs :
          k1 # k2 => Range(outs[k1].sent) \cap Range(outs[k2].sent) = {}

\* C7 (double execute): a second execute() on a handle whose first execute()
\* returned a stream fails with an error returned to the caller; the first
\* stream stays with the handle and no item is delivered twice.
C7_SecondExecuteReturnsErr ==
    \A h \in DOMAIN handles :
       (Len(results[h]) >= 2 /\ results[h][1] = "Ok") =>
          /\ results[h][2] \in ReturnedErr
          /\ outs[handles[h] + 1].owner = h
          /\ NoItemTwice

\* C8 (zero-input rejection): as long as no upstream is registered, every
\* execute() call made has returned the configuration error, no task has
\* been spawned and mpsc::channel has not been called.
C8_ZeroInputsRejected ==
    Len(inputs) = 0 =>
       /\ \A h \in DOMAIN handles : \A i \in DOMAIN results[h] : results[h][i] = "ErrZeroInputs"
       /\ branches = <<>>
       /\ dists = <<>>
       /\ chanCalls = 0

(***************************************************************************)
(* The data path.                                                          *)
(***************************************************************************)
\* the merged stream of distributor d, in arrival order
Merged(d) == fanins[dists[d].fanin].sent

\* how many merged items distributor d has passed to an output channel
Routed(d) == fanins[dists[d].fanin].rcvd - (IF dists[d].pc = "send" THEN 1 ELSE 0)

\* the merged items at the positions p < r (counted from 0) with p mod m mod outputs = j, in order
Share(merged, r, m, outputs, j) ==
    LET F[i \in 0..r] ==
           IF i = 0 THEN <<>>
           ELSE IF ((i - 1) % m) % outputs = j THEN Append(F[i - 1], merged[i]) ELSE F[i - 1]
    IN F[r]

NoDup(seq) == \A i, j \in DOMAIN seq : i # j => seq[i] # seq[j]

\* no wired upstream fails or yields an error
NoErrors == \A u \in Range(inputs) : script[u].execOk /\ "err" \notin Range(script[u].items)

ItemsOf(u) == {Item(u, k, script[u].items[k] = "err") : k \in DOMAIN script[u].items}

\* C5 (fan-in completeness): without errors, the merged stream holds no item
\* twice and only items of the wired upstreams, and once it has been consumed
\* to its end it holds every item of every wired upstream.
C5_FanInComplete ==
    NoErrors =>
       \A d \in DOMAIN dists :
          /\ NoDup(Merged(d))
          /\ Range(Merged(d)) \subseteq UNION {ItemsOf(u) : u \in Range(inputs)}
          /\ dists[d].pc = "done" => Range(Merged(d)) = UNION {ItemsOf(u) : u \in Range(inputs)}

\* two upstreams of two items or more have been merged to the end
C5_Witness ==
    /\ NoErrors
    /\ Len(inputs) = 2
    /\ \A u \in Range(inputs) : Len(script[u].items) >= 2
    /\ \E d \in DOMAIN dists : dists[d].pc = "done"

\* the position of the first Err item of upstream u, or the length of its stream
Cut(u) ==
    LET errs == {k \in DOMAIN script[u].items : script[u].items[k] = "err"}
    IN IF errs = {} THEN Len(script[u].items)
       ELSE CHOOSE k \in errs : \A e \in errs : k <= e

\* what the branch of upstream u is to forward: its items up to the first Err item, included
Forwards(u) == {Item(u, k, script[u].items[k] = "err") : k \in 1..Cut(u)}

\* C6 (error isolation): when a wired upstream yields an Err item, its branch
\* never pulls past that item and forwards nothing after it; the merged
\* stream holds, once each, only what the branches are to forward; and when
\* the distributor is done the output channels hold exactly that: every item
\* of the other upstreams, and the failing upstream's items up to its Err item.
C6_ErrorIsolation ==
    (\E u \in Range(inputs) : script[u].execOk /\ "err" \in Range(script[u].items)) =>
       /\ \A b \in DOMAIN branches : branches[b].pos <= Cut(branches[b].up)
       /\ \A d \in DOMAIN dists :
             /\ NoDup(Merged(d))
             /\ \A u \in Range(inputs) : script[u].execOk =>
                   {it \in Range(Merged(d)) : it.src = u} \subseteq Forwards(u)
             /\ dists[d].pc = "done" =>
                   /\ NoItemTwice
                   /\ \A u \in Range(inputs) : script[u].execOk =>
                         {it \in UNION {Range(outs[k].sent) : k \in DOMAIN outs} : it.src = u}
                            = Forwards(u)

\* upstream 1 failed on the second of its three items, upstream 2 yielded two
\* items, and everything has been distributed
C6_Witness ==
    /\ Len(inputs) = 2
    /\ script[1] = Proc(TRUE, ErrAt(3, 2))
    /\ script[2] = Proc(TRUE, OkItems(2))
    /\ \E d \in DOMAIN dists : dists[d].pc = "done"

(***************************************************************************)
(* Progress.                                                               *)
(***************************************************************************)
\* the consumer of output channel k has received everything sent to it, then the end of the stream
Drained(k) == k \in DOMAIN outs /\ outs[k].eos /\ outs[k].rcvd = Len(outs[k].sent)

\* a handle's execute() has taken the receiving end of output channel k
Taken(k) == k \in DOMAIN outs /\ outs[k].owner # 0

\* the distributor is suspended in a send to a full output channel whose
\* receiving end is still in receivers: no consumer will ever make room
Stalled ==
    \E d \in DOMAIN dists :
       /\ dists[d].pc = "send"
       /\ LET k == dists[d].base + dists[d].target + 1
          IN outs[k].owner = 0 /\ receivers[k] /\ Full(outs[k])

\* C9 as claimed (independent outputs): a handle that has executed and keeps
\* consuming eventually receives everything routed to its slot and then the
\* end of the stream, whatever happens to the other slots.
C9_IndependentOutputs == \A k \in 1..MaxN : Taken(k) ~> Drained(k)

\* C9 as amended: a handle that has executed and keeps consuming eventually
\* receives everything routed to its slot and then the end of the stream,
\* unless the distributor is stalled on another slot: one whose channel is
\* full and whose receiving end no handle has taken.
C9_OutputsUnlessStalled == \A k \in 1..MaxN : Taken(k) ~> (Drained(k) \/ Stalled)

\* the creator has drained its stream, with an item buffered for slot 1, which no handle has taken
C9_Witness ==
    /\ n = 2
    /\ Drained(1)
    /\ outs[1].sent # <<>>
    /\ outs[2].owner = 0
    /\ outs[2].sent # <<>>

\* the worker is started and every output slot has been taken by a handle
AllExecuted == n >= 1 /\ started /\ \A k \in DOMAIN outs : outs[k].owner # 0

AllDone ==
    /\ \A b \in DOMAIN branches : branches[b].pc = "done"
    /\ \A d \in DOMAIN dists : dists[d].pc = "done" /\ Buffered(fanins[dists[d].fanin]) = 0
    /\ \A k \in DOMAIN outs : Drained(k)

\* C10 (termination): once every one of the n slots has been taken by a
\* handle's execute(), every branch task and the distributor terminate, the
\* merged stream is consumed to its end and every output stream is drained
\* and ended.
C10_Termination == AllExecuted ~> AllDone

\* two handles, two upstreams, three items or more, and everything has terminated
C10_Witness ==
    /\ n = 2
    /\ Len(inputs) = 2
    /\ TotalItems >= 3
    /\ AllExecuted
    /\ AllDone

(***************************************************************************)
(* Cancellation.                                                           *)
(***************************************************************************)
\* the output channels of distributor d
OutsOf(d) == (dists[d].base + 1)..(dists[d].base + dists[d].outputs)

\* every handle and every stream is dropped: no output channel of d has a receiver
AllClosed(d) == handles = <<>> /\ \A k \in OutsOf(d) : ~outs[k].rx

\* C11 (cancellation by closure): once every handle and every stream is
\* dropped, a send of the distributor fails and is its last step: it returns,
\* dropping the merged stream, so that the branch tasks' sends fail in turn
\* and they stop pulling; it does not go back to the merged stream.
C11_CancelByClosure ==
    [][\A d \in DOMAIN dists :
          (AllClosed(d) /\ dists[d].pc = "send" /\ dists'[d].pc # "send")
             => (dists'[d].pc = "done" /\ ~fanins'[dists[d].fanin].rx)]_vars

(***************************************************************************)
(* Failed starts.                                                          *)
(***************************************************************************)
\* the handles whose execute() has taken slot i (counted from 0)
TakersOf(i) == {h \in DOMAIN handles : handles[h] = i /\ \E c \in DOMAIN results[h] : results[h][c] \in {"Ok", "PanicUnwrap"}}

\* C12 (receiver slots): receivers is empty or has exactly n slots; slot i is
\* the receiving end of output channel i of the one distributor, and it is
\* in its slot exactly as long as no handle with index i has executed; an
\* execute() on a started worker allocates and spawns nothing.
C12_ReceiverSlots ==
    /\ [](/\ Len(receivers) \in {0, n}
          /\ \A d \in DOMAIN dists : dists[d].base = 0
          /\ \A i \in 0..(Len(receivers) - 1) : receivers[i + 1] = (TakersOf(i) = {}))
    /\ [][started => /\ Len(receivers') = Len(receivers)
                     /\ Len(outs') = Len(outs)
                     /\ Len(fanins') = Len(fanins)
                     /\ Len(branches') = Len(branches)
                     /\ dists' = dists \/ Len(dists') = Len(dists)
                     /\ chanCalls' = chanCalls
                     /\ started']_vars

\* C13 (at-most-once spawn): started is true only once the distributor has
\* been spawned; whatever execute() calls are made, failed starts included,
\* at most one distributor task and at most one branch task per upstream are
\* ever spawned, and each upstream's execute() is invoked at most once.
C13_SpawnAtMostOnce ==
    /\ started => Len(dists) = 1
    /\ Len(dists) <= 1
    /\ \A u \in Upstreams : Cardinality(BranchesOf(u)) <= 1
    /\ \A u \in Upstreams : execCount[u] <= 1

(***************************************************************************)
(* The handle counter.                                                     *)
(***************************************************************************)
\* C14 (counter bound): for n >= 1, shared_num never exceeds n and equals the
\* number of handles issued (creator included): a share() call that fails
\* with the overflow error leaves it as it was.
C14_CounterWithinWidth ==
    n >= 1 => (shared_num <= n /\ shared_num = Len(handles))

(***************************************************************************)
(* Routing to a dropped receiver.                                          *)
(***************************************************************************)
IsPrefix(s, t) == Len(s) <= Len(t) /\ \A i \in DOMAIN s : s[i] = t[i]

\* what output channel j holds of its share, the positions p with
\* (p mod m) mod n = j: all of what has been routed while its receiver is
\* alive, a prefix of it once its receiver is dropped
HoldsShare(d, m, j) ==
    LET ch == outs[dists[d].base + j + 1]
        sh == Share(Merged(d), Routed(d), m, n, j)
    IN IF ch.rx THEN ch.sent = sh ELSE IsPrefix(ch.sent, sh)

\* the distributor returns only at the end of the merged stream
EndsWithMerged(d) ==
    dists[d].pc = "done" =>
       /\ Routed(d) = Len(Merged(d))
       /\ LiveSenders(dists[d].fanin) = {}

C16_PerBranchOrder ==
    \A d \in DOMAIN dists : \A i, j \in DOMAIN Merged(d) :
       (i < j /\ Merged(d)[i].src = Merged(d)[j].src) => Merged(d)[i].seq < Merged(d)[j].seq

\* an item of upstream 1 arrives between two items of upstream 2, then
\* another item of upstream 1: the order between branches is not the order
\* in which the upstreams were registered
C16_Witness ==
    \E d \in DOMAIN dists :
       /\ Len(Merged(d)) >= 4
       /\ Merged(d)[1] = Item(2, 1, FALSE)
       /\ Merged(d)[2] = Item(1, 1, FALSE)
       /\ Merged(d)[3] = Item(2, 2, FALSE)
       /\ Merged(d)[4] = Item(1, 2, FALSE)

(***************************************************************************)
(* A failed upstream execute().                                            *)
(***************************************************************************)
\* the positions of the merged stream of d that hold an item of upstream u
FromUpstream(d, u) == {i \in DOMAIN Merged(d) : Merged(d)[i].src = u}

\* C17 (failed upstream execute): when the execute() of a wired upstream
\* fails, its branch task never pulls, invokes execute() once only, and has
\* put exactly one item, the error, in the merged stream when it has
\* returned; every execute() call of the handles returns a stream; and when
\* the distributor has returned the merged stream holds every item of every
\* upstream that yields no error.
C17_FailedExecute ==
    \A u \in Range(inputs) : ~script[u].execOk =>
       /\ execCount[u] <= 1
       /\ \A b \in BranchesOf(u) :
             /\ branches[b].pos = 0
             /\ branches[b].pc \in {"exec", "last", "done"}
             /\ branches[b].pc # "exec" => execCount[u] = 1
             /\ \A d \in DOMAIN dists :
                   /\ \A i \in FromUpstream(d, u) : Merged(d)[i] = Item(u, 0, TRUE)
                   /\ Cardinality(FromUpstream(d, u)) = (IF branches[b].pc = "done" THEN 1 ELSE 0)
       /\ \A h \in DOMAIN handles : \A c \in DOMAIN results[h] : results[h][c] = "Ok"
       /\ \A d \in DOMAIN dists : dists[d].pc = "done" =>
             \A v \in Range(inputs) :
                (script[v].execOk /\ "err" \notin Range(script[v].items)) =>
                   ItemsOf(v) \subseteq Range(Merged(d))

\* the execute() of upstream 1 failed, upstream 2 yielded two items, two
\* handles have executed and the distributor has returned
C17_Witness ==
    /\ Len(inputs) = 2
    /\ script[1] = FailProc
    /\ script[2] = Proc(TRUE, OkItems(2))
    /\ Cardinality(Executed) >= 2
    /\ \E d \in DOMAIN dists : dists[d].pc = "done"

(***************************************************************************)
(* Backpressure.                                                           *)
(***************************************************************************)
\* the items pulled from the upstreams so far
Pulled == UNION {{it \in ItemsOf(branches[b].up) : it.seq <= branches[b].pos} : b \in DOMAIN branches}

\* the items the consumers have received
Received == UNION {{outs[k].sent[i] : i \in 1..outs[k].rcvd} : k \in DOMAIN outs}

\* M*(n+2)+1: n output channels and the fan-in channel of capacity M, one
\* item held by each of the M branch tasks, one by the distributor
PressBound(M) == M * (n + 2) + 1

\* C18 (backpressure bound): once started with M upstreams, the items pulled
\* from the upstreams and not yet received by a consumer number at most
\* M*(n+2)+1, and when they are that many no branch task is about to pull.
C18_BackpressureBound ==
    started =>
       LET M == Len(branches) IN   \* one branch task per upstream registered at the start
       /\ Cardinality(Pulled \ Received) <= PressBound(M)
       /\ Cardinality(Pulled \ Received) = PressBound(M) =>
             \A b \in DOMAIN branches : branches[b].pc \in {"send", "last"}

\* one upstream, two outputs, no consumer has read anything: five items are
\* pulled and not received, one in each output channel, one held by the
\* distributor, one in the fan-in channel, one held by the branch task
C18_Witness ==
    /\ started
    /\ n = 2
    /\ Len(inputs) = 1
    /\ Received = {}
    /\ Cardinality(Pulled) = PressBound(1)

(***************************************************************************)
(* Upstreams wired after the start.                                        *)
(***************************************************************************)
\* the upstreams registered by connect_to() calls made after the worker
\* started: those beyond the ones its branch tasks were spawned for
LateInputs == {inputs[i] : i \in (Len(branches) + 1)..Len(inputs)}

\* every item in a channel
InChannels ==
    UNION ({Range(fanins[f].sent) : f \in DOMAIN fanins} \cup {Range(outs[k].sent) : k \in DOMAIN outs})

\* C19 (late connect_to): on a started worker connect_to() appends the
\* upstream to inputs and changes nothing else; the upstream's execute() is
\* never invoked, no branch task exists for it, none of its items is in any
\* channel, and the channels keep the capacity of the start.
C19_LateInputsIgnored ==
    /\ [](started =>
            /\ \A u \in LateInputs :
                  /\ execCount[u] = 0
                  /\ BranchesOf(u) = {}
                  /\ \A it \in InChannels : it.src # u
            /\ \A k \in DOMAIN outs : outs[k].cap = Len(branches)
            /\ \A f \in DOMAIN fanins : fanins[f].cap = Len(branches))
    /\ [][(started /\ inputs' # inputs) =>
             /\ \E u \in Upstreams : inputs' = Append(inputs, u)
             /\ UNCHANGED <<started, receivers, outs, fanins, branches, dists, execCount, chanCalls>>]_vars

\* one upstream at the start, a second one yielding an item wired later; the
\* distributor has returned and the second upstream was never executed
C19_Witness ==
    /\ started
    /\ Len(inputs) = 2
    /\ Len(branches) = 1
    /\ script[2].items # <<>>
    /\ \E d \in DOMAIN dists : dists[d].pc = "done"
    /\ Cardinality(Executed) >= 2

(***************************************************************************)
(* Retry after a failed start.                                             *)
(***************************************************************************)
\* handle h's execute() call returns an error in this step
ReturnsErr(h) ==
    /\ h \in DOMAIN results
    /\ Len(results'[h]) = Len(results[h]) + 1
    /\ results'[h][Len(results'[h])] \in ReturnedErr

\* the stream handle h holds is the receiving end of the output channel the
\* distributor routes slot handles[h] to
LiveStream(h) ==
    \A k \in DOMAIN outs : outs[k].owner = h =>
       \E d \in DOMAIN dists : k = dists[d].base + handles[h] + 1

\* C20 (retry after a failed start): an execute() call that returns an error
\* leaves started false and receivers as they were, and the stream that a
\* later execute() on the worker returns is the receiving end of the
\* handle's output channel.
C20_FailedStartRetryable ==
    /\ [][\A h \in 1..MaxHandles : ReturnsErr(h) => (~started' /\ receivers' = receivers)]_vars
    /\ [](\A h \in DOMAIN handles : LiveStream(h))

====
